---- MODULE Spec2Model ----
(***************************************************************************)
(* Model of the deep security analyzer (src/python/deep_analyzer.py) and   *)
(* of its HTTP bridge (src/python/bridge.py).                              *)
(*                                                                         *)
(* Python values are tagged records, so that a value of any JSON type can  *)
(* stand where the code expects a particular one and the model raises what *)
(* the interpreter raises.  A call returns either Ok(value) or Raise(msg), *)
(* msg being str(e) of the exception the code lets escape.                 *)
(***************************************************************************)
EXTENDS Integers, Sequences, FiniteSets, TLC

VARIABLES
    pc,          \* position of the one-shot pipe process (deep_analyzer.main)
    stdin,       \* what the pipe process read from standard input
    stdout,      \* what it printed
    exit_code,   \* its exit status
    call,        \* the detector call made by a direct caller of the analyzer
    ret,         \* what that call returned
    wpc,         \* per bridge worker thread: position in its request handler
    request,     \* per worker: the request it was given
    frame,       \* per analysis frame: the locals of analyze_scan_results
    response,    \* per worker: what has been sent to the client so far
    pending      \* per worker: the body its handler has still to write

vars == <<pc, stdin, stdout, exit_code, call, ret, wpc, request, frame, response, pending>>

(***************************************************************************)
(* Python values.                                                          *)
(***************************************************************************)
None == [t |-> "NoneType"]

PyInt(n) == [t |-> "int", n |-> n]

PyStr(s) == [t |-> "str", s |-> s]

PyList(l) == [t |-> "list", l |-> l]

\* a dict: its keys in insertion order, o, and the value of each key, d
PyDict(o, d) == [t |-> "dict", o |-> o, d |-> d]

EmptyDict == PyDict(<<>>, <<>>)

Ok(v) == [ok |-> TRUE, value |-> v]

Raise(msg) == [ok |-> FALSE, error |-> msg]

Has(d, k) == k \in DOMAIN d.d

\* the rest of a computation, f, unless x raised
Then(x, f(_)) == IF x.ok THEN f(x.value) ELSE x

(***************************************************************************)
(* Strings.  A string is indexed from 0 as in Python; At(s, i) is s[i].    *)
(***************************************************************************)
At(s, i) == SubSeq(s, i + 1, i + 1)

Slice(s, i, j) == SubSeq(s, i + 1, j)

UpperCase == "ABCDEFGHIJKLMNOPQRSTUVWXYZ"

LowerCase == "abcdefghijklmnopqrstuvwxyz"

Digits == "0123456789"

\* the characters str.strip() removes and \s matches, among chr(1) .. chr(127),
\* the alphabet of the model: space, \t, \n, \r, \f, then chr(11) (vertical
\* tab) and chr(28) .. chr(31) (the four separators), written as they are
Whitespace == " \t\n\r\f"

InStr(c, chars) == \E i \in 0 .. Len(chars) - 1 : At(chars, i) = c

LowerChar(c) ==
    IF InStr(c, UpperCase)
    THEN At(LowerCase, CHOOSE i \in 0 .. 25 : At(UpperCase, i) = c)
    ELSE c

RECURSIVE LowerRange(_, _, _)
\* the characters i .. j-1 of s, each lower-cased
LowerRange(s, i, j) ==
    IF j <= i THEN ""
    ELSE IF j = i + 1 THEN LowerChar(At(s, i))
    ELSE LET m == (i + j) \div 2
         IN  LowerRange(s, i, m) \o LowerRange(s, m, j)

\* str.lower()
lower(s) == LowerRange(s, 0, Len(s))

\* needle in haystack, for two strings
Contains(haystack, needle) ==
    \E i \in 0 .. Len(haystack) - Len(needle) :
        Slice(haystack, i, i + Len(needle)) = needle

RECURSIVE ReplaceRange(_, _, _)
\* the characters i .. j-1 of s, each "_" replaced by " "
ReplaceRange(s, i, j) ==
    IF j <= i THEN ""
    ELSE IF j = i + 1 THEN (IF At(s, i) = "_" THEN " " ELSE At(s, i))
    ELSE LET m == (i + j) \div 2
         IN  ReplaceRange(s, i, m) \o ReplaceRange(s, m, j)

\* str.replace("_", " ")
replace_underscore(s) == ReplaceRange(s, 0, Len(s))

RECURSIVE LStrip(_, _)
LStrip(s, i) ==
    IF i < Len(s) /\ InStr(At(s, i), Whitespace) THEN LStrip(s, i + 1) ELSE i

RECURSIVE RStrip(_, _)
RStrip(s, j) ==
    IF j > 0 /\ InStr(At(s, j - 1), Whitespace) THEN RStrip(s, j - 1) ELSE j

\* str.strip()
strip(s) ==
    LET i == LStrip(s, 0)
        j == RStrip(s, Len(s))
    IN  IF i >= j THEN "" ELSE Slice(s, i, j)

Min(a, b) == IF a < b THEN a ELSE b

Max(a, b) == IF a > b THEN a ELSE b

(***************************************************************************)
(* Regular expressions, as re compiles them with re.IGNORECASE: a          *)
(* backtracking matcher.  Ends(r, s, i) is the sequence of offsets at      *)
(* which a match of r that starts at offset i of s can end, in the order   *)
(* the matcher tries them (first alternative first, greedy repetition      *)
(* longest first); the head is the match re reports.  s is lower-cased by  *)
(* the caller and the literals of the patterns are lower-case, which is    *)
(* what IGNORECASE amounts to on ASCII text.                               *)
(***************************************************************************)
Lit(s) == [t |-> "lit", s |-> s]

\* a character class [chars], or [^chars] when neg
Cls(chars, neg) == [t |-> "cls", chars |-> chars, neg |-> neg]

Cat(rs) == [t |-> "cat", rs |-> rs]

Alt(rs) == [t |-> "alt", rs |-> rs]

Star(r) == [t |-> "star", r |-> r]

WordB == [t |-> "wordb"]

Plus(r) == Cat(<<r, Star(r)>>)

Opt(r) == Alt(<<r, Lit("")>>)

\* \w, \s and . (re.DOTALL is not set)
WordChars == LowerCase \o UpperCase \o Digits \o "_"

ClsW == Cls(WordChars, FALSE)

ClsS == Cls(Whitespace, FALSE)

Dot == Cls("\n", TRUE)

IsWordAt(s, i) == i >= 0 /\ i < Len(s) /\ InStr(At(s, i), WordChars)

RECURSIVE Ends(_, _, _)
RECURSIVE EndsCat(_, _, _)
RECURSIVE EndsAlt(_, _, _)
RECURSIVE EndsFrom(_, _, _)
\* the ends of r started at each offset of the sequence starts, in order
EndsFrom(r, s, starts) ==
    IF starts = <<>> THEN <<>>
    ELSE Ends(r, s, Head(starts)) \o EndsFrom(r, s, Tail(starts))

EndsCat(rs, s, i) ==
    IF rs = <<>> THEN <<i>>
    ELSE EndsFrom(Cat(Tail(rs)), s, Ends(Head(rs), s, i))

EndsAlt(rs, s, i) ==
    IF rs = <<>> THEN <<>>
    ELSE Ends(Head(rs), s, i) \o EndsAlt(Tail(rs), s, i)

Ends(r, s, i) ==
    CASE r.t = "lit" ->
            IF i + Len(r.s) <= Len(s) /\ Slice(s, i, i + Len(r.s)) = r.s
            THEN <<i + Len(r.s)>> ELSE <<>>
      [] r.t = "cls" ->
            IF i < Len(s) /\ (InStr(At(s, i), r.chars) # r.neg)
            THEN <<i + 1>> ELSE <<>>
      [] r.t = "wordb" ->
            IF IsWordAt(s, i - 1) # IsWordAt(s, i) THEN <<i>> ELSE <<>>
      [] r.t = "cat" -> EndsCat(r.rs, s, i)
      [] r.t = "alt" -> EndsAlt(r.rs, s, i)
      [] r.t = "star" /\ r.r.t = "cls" ->
            \* a repeated class: every prefix of the run of such characters
            LET run == CHOOSE n \in 0 .. Len(s) - i :
                           /\ \A k \in i .. i + n - 1 : Ends(r.r, s, k) # <<>>
                           /\ (i + n < Len(s) => Ends(r.r, s, i + n) = <<>>)
            IN  [k \in 1 .. run + 1 |-> i + run + 1 - k]
      [] r.t = "star" ->
            LET once == SelectSeq(Ends(r.r, s, i), LAMBDA e : e > i)
            IN  EndsFrom(r, s, once) \o <<i>>

\* re.finditer(pattern, s): the non-overlapping matches, leftmost first, as
\* [start, end] spans, scanning from offset pos
RECURSIVE FindIter(_, _, _)
FindIter(r, s, pos) ==
    LET starts == {p \in pos .. Len(s) : Ends(r, s, p) # <<>>}
        start == CHOOSE p \in starts : \A q \in starts : p <= q
        end == Head(Ends(r, s, start))
    IN  IF starts = {} THEN <<>>
        ELSE <<[start |-> start, end |-> end]>> \o FindIter(r, s, Max(end, start + 1))

finditer(pattern, content) == FindIter(pattern, lower(content), 0)

(***************************************************************************)
(* DeepSecurityAnalyzer.__init__: the pattern registry.  A dict keeps its  *)
(* insertion order, so it is a sequence of items.                          *)
(***************************************************************************)
Words(ws) == Alt([i \in DOMAIN ws |-> Lit(ws[i])])

SqlInjectionPattern ==
    Alt(<<Cat(<<WordB, Words(<<"select", "update", "delete", "insert", "drop", "alter">>),
                WordB, Star(Dot),
                WordB, Words(<<"from", "table", "where", "set">>), WordB>>),
          Cat(<<Lit("'"), Star(ClsS), Lit("or"), Star(ClsS), Lit("'"), Star(ClsS),
                Lit("="), Star(ClsS), Lit("'")>>),
          Cat(<<Lit("'"), Star(ClsS), Lit(";"), Star(ClsS), Lit("--"), Star(ClsS)>>)>>)

XssPattern ==
    Alt(<<Cat(<<Lit("<script"), Star(Cls(">", TRUE)), Lit(">")>>),
          Lit("javascript:"),
          Cat(<<WordB, Lit("on"), Plus(ClsW), Star(ClsS), Lit("=")>>),
          Cat(<<WordB, Lit("eval"), Star(ClsS), Lit("(")>>)>>)

SensitiveDataPattern ==
    Alt(<<Lit("password"), Lit("passwd"), Lit("pwd"), Lit("secret"),
          Cat(<<Lit("api"), Opt(Cls("_-", FALSE)), Lit("key")>>),
          Cat(<<Lit("access"), Opt(Cls("_-", FALSE)), Lit("token")>>),
          Cat(<<Lit("auth"), Opt(Cls("_-", FALSE)), Lit("token")>>)>>)

PathTraversalPattern ==
    Words(<<"../", "..\\", "/etc/passwd", "/etc/shadow", "c:\\windows\\system32">>)

OpenRedirectPattern ==
    Words(<<"url=", "redirect=", "return=", "next=", "redir=", "r=", "destination=">>)

patterns ==
    <<[key |-> "sql_injection", value |-> SqlInjectionPattern],
      [key |-> "xss_vulnerability", value |-> XssPattern],
      [key |-> "sensitive_data", value |-> SensitiveDataPattern],
      [key |-> "path_traversal", value |-> PathTraversalPattern],
      [key |-> "open_redirect", value |-> OpenRedirectPattern]>>

severity_mapping ==
    [sql_injection |-> "critical", xss_vulnerability |-> "high",
     sensitive_data |-> "high", path_traversal |-> "critical",
     open_redirect |-> "medium"]

\* chr(11), written as it is
VerticalTab == ""

\* a content whose match and whose context both depend on chr(11) being
\* whitespace
TabbedContent == VerticalTab \o "' " \o VerticalTab \o "or '='"

\* the contents the model is run on, and their matches, computed once
ContentSamples ==
    {"SELECT * FROM users WHERE id=1",
     "<a href=\"../../x\">password</a>",
     "<script>alert(1)</script>",
     TabbedContent}

MatchCache ==
    [c \in ContentSamples |-> [k \in DOMAIN patterns |-> finditer(patterns[k].value, c)]]

\* re.finditer(pattern, content, re.IGNORECASE) for the k-th pattern
Matches(k, content) ==
    IF content \in ContentSamples THEN MatchCache[content][k]
    ELSE finditer(patterns[k].value, content)

\* the characters of context kept on each side of a match
ContextWidth == 30

(***************************************************************************)
(* What the interpreter does with a value of each type.                    *)
(***************************************************************************)
Hashable(v) == v.t \notin {"list", "dict"}

Unhashable(v) == Raise("unhashable type: '" \o v.t \o "'")

\* iter(v): the elements a for loop or list.extend draws from v; a dict
\* gives its keys in insertion order
Iterate(v) ==
    CASE v.t = "list" -> Ok(v.l)
      [] v.t = "dict" -> Ok([i \in DOMAIN v.o |-> PyStr(v.o[i])])
      [] v.t = "str" -> Ok([i \in 1 .. Len(v.s) |-> PyStr(At(v.s, i - 1))])
      [] OTHER -> Raise("'" \o v.t \o "' object is not iterable")

\* key in v, for a string key
In(key, v) ==
    CASE v.t = "dict" -> Ok(key \in DOMAIN v.d)
      [] v.t = "str" -> Ok(Contains(v.s, key))
      [] v.t = "list" -> Ok(\E i \in DOMAIN v.l : v.l[i] = PyStr(key))
      [] OTHER -> Raise("argument of type '" \o v.t \o "' is not iterable")

\* v[key], for a string key
GetItem(v, key) ==
    CASE v.t = "dict" ->
            IF key \in DOMAIN v.d THEN Ok(v.d[key]) ELSE Raise("'" \o key \o "'")
      [] v.t = "str" -> Raise("string indices must be integers, not 'str'")
      [] v.t = "list" -> Raise("list indices must be integers or slices, not str")
      [] OTHER -> Raise("'" \o v.t \o "' object is not subscriptable")

\* v.get(key, default)
Get(v, key, default) ==
    IF v.t # "dict" THEN Raise("'" \o v.t \o "' object has no attribute 'get'")
    ELSE IF key \in DOMAIN v.d THEN Ok(v.d[key]) ELSE Ok(default)

\* len(v)
PyLen(v) ==
    CASE v.t = "str" -> Ok(Len(v.s))
      [] v.t = "list" -> Ok(Len(v.l))
      [] v.t = "dict" -> Ok(Cardinality(DOMAIN v.d))
      [] OTHER -> Raise("object of type '" \o v.t \o "' has no len()")

\* v.lower()
PyLower(v) ==
    IF v.t = "str" THEN Ok(lower(v.s))
    ELSE Raise("'" \o v.t \o "' object has no attribute 'lower'")

(***************************************************************************)
(* DeepSecurityAnalyzer.analyze_content                                    *)
(***************************************************************************)
\* the dict appended for one match of the pattern issue_type
ContentIssue(issue_type, url, content, match) ==
    PyDict(<<"id", "severity", "details", "context", "url", "position">>,
           [id |-> PyStr("deep_" \o issue_type),
            severity |-> PyStr(IF issue_type \in DOMAIN severity_mapping
                               THEN severity_mapping[issue_type] ELSE "medium"),
            details |-> PyStr("Potential " \o replace_underscore(issue_type) \o " detected"),
            context |-> PyStr(strip(Slice(content, Max(0, match.start - ContextWidth),
                                          Min(Len(content), match.end + ContextWidth)))),
            url |-> url,
            position |-> PyInt(match.start)])

RECURSIVE ContentIssues(_, _, _)
\* the issues of the patterns from the k-th on, in the order of patterns.items()
ContentIssues(k, url, content) ==
    IF k > Len(patterns) THEN <<>>
    ELSE LET matches == Matches(k, content)
         IN  [i \in DOMAIN matches |-> ContentIssue(patterns[k].key, url, content, matches[i])]
             \o ContentIssues(k + 1, url, content)

analyze_content(url, content) ==
    IF content.t # "str"
    THEN Raise("expected string or bytes-like object, got '" \o content.t \o "'")
    ELSE Ok(ContentIssues(1, url, content.s))

(***************************************************************************)
(* DeepSecurityAnalyzer.analyze_headers                                    *)
(***************************************************************************)
CookieIssue(url, value) ==
    PyDict(<<"id", "severity", "details", "context", "url">>,
           [id |-> PyStr("deep_insecure_cookie"),
            severity |-> PyStr("high"),
            details |-> PyStr("Cookies set without Secure or HttpOnly flags"),
            context |-> value,
            url |-> url])

ServerIssue(url, value) ==
    PyDict(<<"id", "severity", "details", "context", "url">>,
           [id |-> PyStr("deep_server_disclosure"),
            severity |-> PyStr("medium"),
            details |-> PyStr("Server header reveals software information"),
            context |-> value,
            url |-> url])

\* the first if of analyze_headers: the issues it appends
CookieCheck(url, headers) ==
    Then(In("set-cookie", headers), LAMBDA present :
    IF ~present THEN Ok(<<>>) ELSE
    Then(GetItem(headers, "set-cookie"), LAMBDA value :
    Then(PyLower(value), LAMBDA low :
    IF ~Contains(low, "secure") \/ ~Contains(low, "httponly")
    THEN Ok(<<CookieIssue(url, value)>>)
    ELSE Ok(<<>>))))

\* the second if of analyze_headers: the issues it appends
ServerCheck(url, headers) ==
    Then(In("server", headers), LAMBDA present :
    IF ~present THEN Ok(<<>>) ELSE
    Then(GetItem(headers, "server"), LAMBDA value :
    Then(PyLen(value), LAMBDA n :
    IF n > 0 THEN Ok(<<ServerIssue(url, value)>>) ELSE Ok(<<>>))))

analyze_headers(url, headers) ==
    Then(CookieCheck(url, headers), LAMBDA cookie :
    Then(ServerCheck(url, headers), LAMBDA server :
    Ok(cookie \o server)))

(***************************************************************************)
(* DeepSecurityAnalyzer.generate_recommendations                           *)
(***************************************************************************)
\* the seven ifs, in the order the code writes them
RecommendationCatalog ==
    <<[id |-> "deep_sql_injection",
       text |-> "Implement parameterized queries or prepared statements for all database operations. Never concatenate user input directly into SQL queries."],
      [id |-> "deep_xss_vulnerability",
       text |-> "Implement context-specific output encoding and use Content Security Policy (CSP) to mitigate XSS attacks. Consider using modern frameworks that automatically escape output."],
      [id |-> "deep_sensitive_data",
       text |-> "Remove sensitive data from client-side code. Store API keys and credentials securely using environment variables or a secure vault solution."],
      [id |-> "deep_path_traversal",
       text |-> "Validate and sanitize all file paths. Use whitelisting approaches and avoid passing user input directly to filesystem operations."],
      [id |-> "deep_open_redirect",
       text |-> "Implement a whitelist of allowed redirect destinations or use relative path redirects. Always validate redirect URLs against a list of allowed domains."],
      [id |-> "deep_insecure_cookie",
       text |-> "Set the Secure, HttpOnly, and SameSite flags on all cookies containing sensitive information. Consider implementing token-based authentication instead of cookie-based authentication."],
      [id |-> "deep_server_disclosure",
       text |-> "Configure your web server to remove or obfuscate the Server header to prevent information disclosure about your technology stack."]>>

RECURSIVE IssueTypes(_, _)
\* set(issue['id'] for issue in issues), acc being the ids drawn so far
IssueTypes(issues, acc) ==
    IF issues = <<>> THEN Ok(acc)
    ELSE Then(GetItem(Head(issues), "id"), LAMBDA id :
         IF ~Hashable(id) THEN Unhashable(id)
         ELSE IssueTypes(Tail(issues), acc \cup {id}))

\* mutant: an id outside the catalog gets a generic recommendation
RecommendWithDefault(issue_types) ==
    LET hit == SelectSeq(RecommendationCatalog, LAMBDA e : PyStr(e.id) \in issue_types)
        known == {PyStr(RecommendationCatalog[k].id) : k \in DOMAIN RecommendationCatalog}
    IN  [i \in DOMAIN hit |-> PyStr(hit[i].text)]
        \o (IF issue_types \subseteq known THEN <<>>
            ELSE <<PyStr("Review the reported issues.")>>)

\* the recommendations appended for a set of issue ids
Recommend(issue_types) ==
    LET hit == SelectSeq(RecommendationCatalog, LAMBDA e : PyStr(e.id) \in issue_types)
    IN  [i \in DOMAIN hit |-> PyStr(hit[i].text)]

\* mutant: a recommendation is appended for each issue as it is met
generate_recommendations_per_issue(issues) ==
    Then(IssueTypes(issues, {}), LAMBDA issue_types :
        LET known == SelectSeq(issues, LAMBDA issue :
                         \E k \in DOMAIN RecommendationCatalog :
                             issue.d["id"] = PyStr(RecommendationCatalog[k].id))
        IN  Ok([i \in DOMAIN known |->
                   PyStr(RecommendationCatalog[
                       CHOOSE k \in DOMAIN RecommendationCatalog :
                           known[i].d["id"] = PyStr(RecommendationCatalog[k].id)].text)]))

generate_recommendations(issues) ==
    Then(IssueTypes(issues, {}), LAMBDA issue_types : Ok(Recommend(issue_types)))

(***************************************************************************)
(* DeepSecurityAnalyzer.analyze_scan_results                               *)
(***************************************************************************)
\* all_issues and all_urls as the function creates them
NewFrame == [all_issues |-> <<>>, all_urls |-> {}]

\* mutant: the header issues are appended before the content issues
ProcessRecordHeadersFirst(fr, result) ==
    Then(Get(result, "url", PyStr("")), LAMBDA url :
    IF ~Hashable(url) THEN Unhashable(url) ELSE
    Then(Get(result, "issues", PyList(<<>>)), LAMBDA issues :
    Then(Iterate(issues), LAMBDA existing :
    Then(IF Has(result, "content") THEN analyze_content(url, result.d["content"])
         ELSE Ok(<<>>), LAMBDA content_issues :
    Then(IF Has(result, "headers") THEN analyze_headers(url, result.d["headers"])
         ELSE Ok(<<>>), LAMBDA header_issues :
    Ok([all_issues |-> fr.all_issues \o existing \o header_issues \o content_issues,
        all_urls |-> fr.all_urls \cup {url}]))))))

\* one iteration of the loop over results, on the locals fr
ProcessRecord(fr, result) ==
    Then(Get(result, "url", PyStr("")), LAMBDA url :
    IF ~Hashable(url) THEN Unhashable(url) ELSE
    Then(Get(result, "issues", PyList(<<>>)), LAMBDA issues :
    Then(Iterate(issues), LAMBDA existing :
    Then(IF Has(result, "content") THEN analyze_content(url, result.d["content"])
         ELSE Ok(<<>>), LAMBDA content_issues :
    Then(IF Has(result, "headers") THEN analyze_headers(url, result.d["headers"])
         ELSE Ok(<<>>), LAMBDA header_issues :
    Ok([all_issues |-> fr.all_issues \o existing \o content_issues \o header_issues,
        all_urls |-> fr.all_urls \cup {url}]))))))

RECURSIVE ProcessRecords(_, _)
\* the loop over results
ProcessRecords(fr, results) ==
    IF results = <<>> THEN Ok(fr)
    ELSE Then(ProcessRecord(fr, Head(results)), LAMBDA next :
         ProcessRecords(next, Tail(results)))

ZeroCounts == [critical |-> 0, high |-> 0, medium |-> 0, low |-> 0]

\* mutant: an issue without a severity is left out of the counts
SeverityOfExcluded(issue) == Get(issue, "severity", PyStr("unknown"))

\* the severity an issue is counted under
SeverityOf(issue) == Get(issue, "severity", PyStr("low"))

RECURSIVE CountSeverities(_, _)
\* the loop that counts issues by severity
CountSeverities(issues, counts) ==
    IF issues = <<>> THEN Ok(counts)
    ELSE Then(SeverityOf(Head(issues)), LAMBDA severity :
         IF ~Hashable(severity) THEN Unhashable(severity)
         ELSE IF severity.t = "str" /\ severity.s \in DOMAIN counts
         THEN CountSeverities(Tail(issues),
                  [counts EXCEPT ![severity.s] = counts[severity.s] + 1])
         ELSE CountSeverities(Tail(issues), counts))

\* mutant: the weighted sum is not capped
RiskScoreUnclamped(counts) ==
    counts.critical * 25 + counts.high * 10 + counts.medium * 5 + counts.low * 1

RiskScore(counts) ==
    Min(100, counts.critical * 25 + counts.high * 10 + counts.medium * 5 + counts.low * 1)

\* mutant: the thresholds are inclusive
RiskLevelInclusive(risk_score) ==
    IF risk_score >= 75 THEN "critical"
    ELSE IF risk_score >= 50 THEN "high"
    ELSE IF risk_score >= 25 THEN "medium"
    ELSE "low"

RiskLevel(risk_score) ==
    IF risk_score > 75 THEN "critical"
    ELSE IF risk_score > 50 THEN "high"
    ELSE IF risk_score > 25 THEN "medium"
    ELSE "low"

\* the dict the function returns
Report(all_issues, recommendations, counts, all_urls) ==
    PyDict(<<"enhanced_issues", "recommendations", "risk_score", "risk_level",
             "severity_counts", "urls_analyzed">>,
           [enhanced_issues |-> PyList(all_issues),
            recommendations |-> PyList(recommendations),
            risk_score |-> PyInt(RiskScore(counts)),
            risk_level |-> PyStr(RiskLevel(RiskScore(counts))),
            severity_counts |-> PyDict(<<"critical", "high", "medium", "low">>,
                                       [s \in DOMAIN counts |-> PyInt(counts[s])]),
            urls_analyzed |-> PyInt(Cardinality(all_urls))])

\* what follows the loop: recommendations, counts, score, level, the report
Summarize(fr) ==
    Then(generate_recommendations(fr.all_issues), LAMBDA recommendations :
    Then(CountSeverities(fr.all_issues, ZeroCounts), LAMBDA severity_counts :
    Ok(Report(fr.all_issues, recommendations, severity_counts, fr.all_urls))))

analyze_scan_results(results) ==
    Then(Iterate(results), LAMBDA records :
    Then(ProcessRecords(NewFrame, records), LAMBDA fr :
    Summarize(fr)))

(***************************************************************************)
(* Inputs.  A batch is built from a few pages (a record without issues)    *)
(* and a few upstream issues; its size is the number of its records plus   *)
(* the number of issues they carry.                                        *)
(***************************************************************************)
MaxSize == 4

IssueSamples ==
    {PyDict(<<"id", "severity">>, [id |-> PyStr("x"), severity |-> PyStr("critical")]),
     PyDict(<<"id", "severity">>, [id |-> PyStr("x"), severity |-> PyStr("low")]),
     PyDict(<<"id", "severity">>, [id |-> PyStr("deep_open_redirect"), severity |-> PyStr("info")]),
     PyDict(<<"id">>, [id |-> PyStr("x")])}

PageSamples ==
    {PyDict(<<"url">>, [url |-> PyStr("a")]),
     PyDict(<<"url", "content">>, [url |-> PyStr("a"), content |-> PyStr("SELECT * FROM users WHERE id=1")]),
     PyDict(<<"url", "content", "headers">>, [url |-> PyStr("b"), content |-> PyStr("<a href=\"../../x\">password</a>"),
             headers |-> PyDict(<<"set-cookie", "server">>,
                                ("set-cookie" :> PyStr("session=abc")) @@ ("server" :> PyStr("nginx")))]),
     PyDict(<<"content">>, [content |-> PyStr(TabbedContent)]),
     PyDict(<<"headers">>, [headers |-> PyDict(<<"server", "set-cookie">>,
                                ("set-cookie" :> PyStr("session=abc; Secure; HttpOnly"))
                                @@ ("server" :> PyStr("")))])}

WithIssues(page, issues) ==
    PyDict(page.o \o <<"issues">>, page.d @@ ("issues" :> PyList(issues)))

\* the records of size w: a page alone, or a page with w - 1 issues
RecordsOfSize(w) ==
    IF w = 1 THEN PageSamples
    ELSE {WithIssues(page, issues) : page \in PageSamples,
                                     issues \in [1 .. w - 1 -> IssueSamples]}

RECURSIVE BatchesUpTo(_)
\* the lists of records of size at most n
BatchesUpTo(n) ==
    {<<>>} \cup UNION {{<<r>> \o b : r \in RecordsOfSize(w), b \in BatchesUpTo(n - w)} :
                       w \in 1 .. n}

\* well-shaped batches at the edges: no keys at all, an empty url, an empty
\* list of issues, the same url twice
EdgeBatches ==
    {<<EmptyDict>>,
     <<PyDict(<<"url">>, [url |-> PyStr("")]), EmptyDict>>,
     <<WithIssues(PyDict(<<"url">>, [url |-> PyStr("a")]), <<>>)>>,
     <<PyDict(<<"url">>, [url |-> PyStr("a")]), PyDict(<<"url">>, [url |-> PyStr("a")]), PyDict(<<"url">>, [url |-> PyStr("b")])>>}

Batches == {PyList(b) : b \in BatchesUpTo(MaxSize) \cup EdgeBatches}

GoodRecord == WithIssues(PyDict(<<"url">>, [url |-> PyStr("a")]), <<PyDict(<<"id", "severity">>, [id |-> PyStr("x"), severity |-> PyStr("critical")])>>)

\* inputs that are not a list of records of the documented shape
MalformedInputs ==
    {EmptyDict, PyDict(<<"a">>, [a |-> PyInt(1)]),
     PyDict(<<"b", "a">>, [b |-> PyInt(1), a |-> PyInt(2)]),
     PyStr(""), PyStr("abc"), PyInt(5), None}
    \cup {PyList(<<GoodRecord, r>>) :
            r \in {PyStr("x"), PyInt(5), None, PyList(<<>>),
                   PyDict(<<"url">>, [url |-> PyList(<<>>)]),
                   PyDict(<<"issues">>, [issues |-> None]), PyDict(<<"issues">>, [issues |-> PyInt(5)]),
                   PyDict(<<"issues">>, [issues |-> PyStr("ab")]), PyDict(<<"issues">>, [issues |-> PyStr("")]),
                   PyDict(<<"issues">>, [issues |-> EmptyDict]),
                   PyDict(<<"issues">>, [issues |-> PyDict(<<"b", "a">>, [b |-> PyInt(1), a |-> PyInt(2)])]),
                   PyDict(<<"issues">>, [issues |-> PyList(<<PyInt(5)>>)]),
                   PyDict(<<"issues">>, [issues |-> PyList(<<EmptyDict>>)]),
                   PyDict(<<"issues">>, [issues |-> PyList(<<PyDict(<<"id">>, [id |-> PyList(<<>>)])>>)]),
                   PyDict(<<"issues">>, [issues |-> PyList(<<PyDict(<<"id", "severity">>, [id |-> PyStr("x"), severity |-> PyList(<<>>)])>>)]),
                   PyDict(<<"issues">>, [issues |-> PyList(<<PyDict(<<"id", "severity">>, [id |-> PyStr("x"), severity |-> None])>>)]),
                   PyDict(<<"content">>, [content |-> PyInt(5)]), PyDict(<<"content">>, [content |-> None]),
                   PyDict(<<"headers">>, [headers |-> None]), PyDict(<<"headers">>, [headers |-> PyInt(5)]),
                   PyDict(<<"headers">>, [headers |-> PyStr("abc")]), PyDict(<<"headers">>, [headers |-> PyStr("set-cookie")]),
                   PyDict(<<"headers">>, [headers |-> PyList(<<>>)]),
                   PyDict(<<"headers">>, [headers |-> PyDict(<<"set-cookie">>, ("set-cookie" :> PyInt(5)))]),
                   PyDict(<<"headers">>, [headers |-> PyDict(<<"server">>, [server |-> PyInt(5)])])}}

\* a document on standard input or in a request body: the JSON text of a
\* value, or a text that is not JSON
Json(v) == [json |-> TRUE, value |-> v]

NotJson == [json |-> FALSE, text |-> "not json"]

\* json.loads
json_loads(doc) ==
    IF doc.json THEN Ok(doc.value)
    ELSE Raise("Expecting value: line 1 column 1 (char 0)")

\* the dict printed for an exception: {'error': str(e), 'status': 'failed'}
ErrorResult(msg) == PyDict(<<"error", "status">>, [error |-> PyStr(msg), status |-> PyStr("failed")])

Documents == {Json(v) : v \in Batches \cup MalformedInputs} \cup {NotJson}

(***************************************************************************)
(* deep_analyzer.main: the one-shot pipe.  stdout holds the value whose    *)
(* JSON text is printed.                                                   *)
(***************************************************************************)
Nothing == [t |-> "nothing"]

NoCall == [fn |-> "none"]

NumWorkers == 2

Workers == 1 .. NumWorkers

Init ==
    /\ pc = "start"
    /\ stdin = Nothing
    /\ stdout = Nothing
    /\ exit_code = 0
    /\ call = NoCall
    /\ ret = Nothing
    /\ wpc = [w \in Workers |-> "idle"]
    /\ request = [w \in Workers |-> Nothing]
    /\ frame = [w \in Workers |-> Nothing]
    /\ response = [w \in Workers |-> Nothing]
    /\ pending = [w \in Workers |-> Nothing]

\* what main prints and the status it exits with, for an outcome of its try block
Exit(outcome) ==
    IF outcome.ok THEN [stdout |-> outcome.value, exit_code |-> 0]
    ELSE [stdout |-> ErrorResult(outcome.error), exit_code |-> 1]

RunMain(doc) == Exit(Then(json_loads(doc), LAMBDA input_data : analyze_scan_results(input_data)))

main(doc) ==
    /\ pc = "start"
    /\ stdin' = doc
    /\ \E out \in {RunMain(doc)} :
          /\ stdout' = out.stdout
          /\ exit_code' = out.exit_code
    /\ pc' = "exited"
    /\ UNCHANGED <<call, ret, wpc, request, frame, response, pending>>

Next == \E doc \in Documents : main(doc)

Spec == Init /\ [][Next]_vars

(***************************************************************************)
(* Properties of the report the pipe prints.                               *)
(***************************************************************************)
Exited == pc = "exited"

Accepted == pc = "exited" /\ exit_code = 0

ReportIssues == stdout.d["enhanced_issues"].l

ReportRecommendations == stdout.d["recommendations"].l

CountOf(s) == stdout.d["severity_counts"].d[s].n

Score == stdout.d["risk_score"].n

Level == stdout.d["risk_level"].s

Severities == {"critical", "high", "medium", "low"}

HasSeverity(issue, s) == Has(issue, "severity") /\ issue.d["severity"] = PyStr(s)

Weighted == 25 * CountOf("critical") + 10 * CountOf("high") + 5 * CountOf("medium") + CountOf("low")

\* C1 as stated: the counts are non-negative and sum to the number of
\* reported findings whose severity is one of the four; a finding with an
\* unrecognized or a missing severity is in no count.
C1_Original ==
    Accepted =>
        /\ \A s \in Severities : CountOf(s) >= 0
        /\ CountOf("critical") + CountOf("high") + CountOf("medium") + CountOf("low")
             = Cardinality({i \in DOMAIN ReportIssues :
                               \E s \in Severities : HasSeverity(ReportIssues[i], s)})

\* C1 amended: each count is the number of reported findings of that
\* severity, a finding without a severity being counted as low; a finding
\* whose severity is any other string is in no count, and a batch of
\* well-shaped records is accepted whatever its severities are.
C1_Amended ==
    /\ Accepted =>
          \A s \in Severities :
              CountOf(s) = Cardinality({i \in DOMAIN ReportIssues :
                              \/ HasSeverity(ReportIssues[i], s)
                              \/ s = "low" /\ ~Has(ReportIssues[i], "severity")})
    /\ (Exited /\ stdin.json /\ stdin.value \in Batches) => exit_code = 0

C1_Witness ==
    /\ Accepted
    /\ \E i \in DOMAIN ReportIssues : ~Has(ReportIssues[i], "severity")
    /\ \E i \in DOMAIN ReportIssues : HasSeverity(ReportIssues[i], "info")
    /\ \E i \in DOMAIN ReportIssues : HasSeverity(ReportIssues[i], "critical")
    /\ CountOf("low") = 1

\* C2: risk_score is min(25*critical + 10*high + 5*medium + low, 100) of the
\* report's own severity_counts, hence within 0 .. 100.
C2_RiskScore ==
    Accepted => /\ Score = (IF Weighted < 100 THEN Weighted ELSE 100)
                /\ Score \in 0 .. 100

C2_Witness == Accepted /\ Weighted > 100 /\ Score = 100

\* C3: risk_level is critical above 75, else high above 50, else medium
\* above 25, else low; so 76 is critical, 75 and 51 high, 50 and 26 medium,
\* 25 and 0 low.
C3_RiskLevel ==
    Accepted =>
        /\ Score > 75 => Level = "critical"
        /\ Score > 50 /\ Score <= 75 => Level = "high"
        /\ Score > 25 /\ Score <= 50 => Level = "medium"
        /\ Score <= 25 => Level = "low"
        /\ Score = 76 => Level = "critical"
        /\ Score \in {75, 51} => Level = "high"
        /\ Score \in {50, 26} => Level = "medium"
        /\ Score \in {25, 0} => Level = "low"

C3_Witness == Accepted /\ Score = 75 /\ Level = "high"

ScenarioBatch == PyList(<<GoodRecord>>)

ScenarioReport(level) ==
    /\ exit_code = 0
    /\ CountOf("critical") = 1
    /\ Score = 25
    /\ Level = level
    /\ stdout.d["urls_analyzed"].n = 1
    /\ Len(ReportIssues) = 1
    /\ ReportRecommendations = <<>>

\* C4 as stated: the one-record scenario batch is reported with one critical
\* finding, score 25, level medium, one url, one issue, no recommendation.
C4_Original == (Exited /\ stdin = Json(ScenarioBatch)) => ScenarioReport("medium")

\* C4 amended: the same report, its risk_level being low (25 is not above 25).
C4_Amended == (Exited /\ stdin = Json(ScenarioBatch)) => ScenarioReport("low")

C4_Witness == Exited /\ stdin = Json(ScenarioBatch) /\ Score = 25

\* the position of the rule that emits findings of this id in the registry
RuleIndex(id) == CHOOSE k \in DOMAIN patterns : PyStr("deep_" \o patterns[k].key) = id

\* rule iteration order, then match order within a rule
InRuleThenMatchOrder(found) ==
    \A i, j \in DOMAIN found :
        i < j => \/ RuleIndex(found[i].d["id"]) < RuleIndex(found[j].d["id"])
                 \/ /\ RuleIndex(found[i].d["id"]) = RuleIndex(found[j].d["id"])
                    /\ found[i].d["position"].n < found[j].d["position"].n

ExistingOf(record) == IF Has(record, "issues") THEN record.d["issues"].l ELSE <<>>

ContentFindingsOf(record) ==
    IF Has(record, "content")
    THEN analyze_content(IF Has(record, "url") THEN record.d["url"] ELSE PyStr(""),
                         record.d["content"]).value
    ELSE <<>>

HeaderFindingsOf(record) ==
    IF Has(record, "headers")
    THEN analyze_headers(IF Has(record, "url") THEN record.d["url"] ELSE PyStr(""),
                         record.d["headers"]).value
    ELSE <<>>

RECURSIVE InSubmissionOrder(_)
InSubmissionOrder(records) ==
    IF records = <<>> THEN <<>>
    ELSE ExistingOf(Head(records)) \o ContentFindingsOf(Head(records))
         \o HeaderFindingsOf(Head(records)) \o InSubmissionOrder(Tail(records))

\* C6: enhanced_issues is, record after record in submission order, the
\* record's own issues as given, then its content findings (by rule, then by
\* match), then its header findings: nothing dropped, duplicated or moved.
C6_Order ==
    (Accepted /\ stdin.value \in Batches) =>
        /\ ReportIssues = InSubmissionOrder(stdin.value.l)
        /\ \A k \in DOMAIN stdin.value.l :
               InRuleThenMatchOrder(ContentFindingsOf(stdin.value.l[k]))

C6_Witness ==
    /\ Accepted
    /\ stdin.value \in Batches
    /\ Len(stdin.value.l) = 2
    /\ Len(ExistingOf(stdin.value.l[1])) = 1
    /\ Len(ContentFindingsOf(stdin.value.l[1])) = 3
    /\ ~ \A i, j \in 1 .. 3 :
            i < j => ContentFindingsOf(stdin.value.l[1])[i].d["position"].n
                       < ContentFindingsOf(stdin.value.l[1])[j].d["position"].n
    /\ Len(HeaderFindingsOf(stdin.value.l[1])) = 2
    /\ Len(ExistingOf(stdin.value.l[2])) = 1
    /\ Len(ReportIssues) = 7

\* the shape the interface documents for a record
WellShapedRecord(r) ==
    /\ r.t = "dict"
    /\ Has(r, "url") => r.d["url"].t = "str"
    /\ Has(r, "content") => r.d["content"].t = "str"
    /\ Has(r, "headers") =>
          /\ r.d["headers"].t = "dict"
          /\ \A k \in DOMAIN r.d["headers"].d : r.d["headers"].d[k].t = "str"
    /\ Has(r, "issues") =>
          /\ r.d["issues"].t = "list"
          /\ \A i \in DOMAIN r.d["issues"].l :
                /\ r.d["issues"].l[i].t = "dict"
                /\ Has(r.d["issues"].l[i], "id")

Malformed(doc) ==
    \/ ~doc.json
    \/ doc.value.t # "list"
    \/ \E i \in DOMAIN doc.value.l : ~WellShapedRecord(doc.value.l[i])

IsErrorResult(v) == v.t = "dict" /\ DOMAIN v.d = {"error", "status"} /\ v.d["status"] = PyStr("failed")

\* C8 as stated: every malformed input (a batch that is not a list, a record
\* of the wrong shape) fails the invocation: the pipe prints an error object
\* and exits non-zero, and prints no report.
C8_MalformedFails ==
    (Exited /\ Malformed(stdin)) => exit_code # 0 /\ IsErrorResult(stdout)

(***************************************************************************)
(* The detectors called directly, as a caller holding an analyzer may:     *)
(* one call of one method on inputs drawn from bounded sets.               *)
(***************************************************************************)
MaxAttrs == 2

MaxFindings == 3

CookieParts ==
    {"session=abc", "Secure", "HttpOnly", "secure", "HTTPONLY", "id=insecure", "k=nothttponly"}

RECURSIVE Join(_)
\* "; ".join(parts)
Join(parts) ==
    IF parts = <<>> THEN ""
    ELSE IF Len(parts) = 1 THEN parts[1]
    ELSE parts[1] \o "; " \o Join(Tail(parts))

CookieValues == {Join(parts) : parts \in UNION {[1 .. n -> CookieParts] : n \in 0 .. MaxAttrs}}

HeaderSamples ==
    {PyDict(cookie.o \o server.o, cookie.d @@ server.d) :
        cookie \in {EmptyDict} \cup {PyDict(<<"set-cookie">>, ("set-cookie" :> PyStr(v))) :
                                        v \in CookieValues},
        server \in {EmptyDict, PyDict(<<"server">>, [server |-> PyStr("")]), PyDict(<<"server">>, [server |-> PyStr("nginx")])}}

FindingIds ==
    {"deep_sql_injection", "deep_xss_vulnerability", "deep_sensitive_data",
     "deep_path_traversal", "deep_open_redirect", "deep_insecure_cookie",
     "deep_server_disclosure", "x"}

FindingSeqs ==
    UNION {[1 .. n -> {PyDict(<<"id">>, [id |-> PyStr(k)]) : k \in FindingIds}] : n \in 0 .. MaxFindings}

CallAnalyzeContent(url, content) ==
    /\ call = NoCall
    /\ call' = [fn |-> "analyze_content", url |-> url, content |-> content]
    /\ ret' = analyze_content(url, content)
    /\ UNCHANGED <<pc, stdin, stdout, exit_code, wpc, request, frame, response, pending>>

CallAnalyzeHeaders(url, headers) ==
    /\ call = NoCall
    /\ call' = [fn |-> "analyze_headers", url |-> url, headers |-> headers]
    /\ ret' = analyze_headers(url, headers)
    /\ UNCHANGED <<pc, stdin, stdout, exit_code, wpc, request, frame, response, pending>>

CallGenerateRecommendations(issues) ==
    /\ call = NoCall
    /\ call' = [fn |-> "generate_recommendations", issues |-> issues]
    /\ ret' = generate_recommendations(issues)
    /\ UNCHANGED <<pc, stdin, stdout, exit_code, wpc, request, frame, response, pending>>

NextCalls ==
    \/ \E content \in ContentSamples : CallAnalyzeContent(PyStr("a"), PyStr(content))
    \/ \E headers \in HeaderSamples : CallAnalyzeHeaders(PyStr("a"), headers)
    \/ \E issues \in FindingSeqs : CallGenerateRecommendations(issues)

SpecCalls == Init /\ [][NextCalls]_vars

(***************************************************************************)
(* Properties of the detectors.                                            *)
(***************************************************************************)
\* the seven ids the generator knows, in the order the claim enumerates them
KnownIds ==
    <<"deep_sql_injection", "deep_xss_vulnerability", "deep_sensitive_data",
      "deep_path_traversal", "deep_open_redirect", "deep_insecure_cookie",
      "deep_server_disclosure">>

TextOf(id) ==
    PyStr(RecommendationCatalog[CHOOSE k \in DOMAIN RecommendationCatalog :
                                    RecommendationCatalog[k].id = id].text)

IdsOf(issues) == {issues[i].d["id"].s : i \in DOMAIN issues}

\* C5: generate_recommendations returns one remediation string for each of
\* the seven known ids that occurs among the findings and nothing else: none
\* twice, none for another id, and in the enumeration order of the ids
\* whatever the order of the findings.
C5_Recommendations ==
    call.fn = "generate_recommendations" =>
        /\ ret.ok
        /\ \A k \in DOMAIN KnownIds :
              Cardinality({i \in DOMAIN ret.value : ret.value[i] = TextOf(KnownIds[k])})
                = (IF KnownIds[k] \in IdsOf(call.issues) THEN 1 ELSE 0)
        /\ \A i \in DOMAIN ret.value : \E k \in DOMAIN KnownIds : ret.value[i] = TextOf(KnownIds[k])
        /\ \A i, j \in DOMAIN ret.value :
              i < j => \E k, l \in DOMAIN KnownIds :
                          /\ k < l
                          /\ ret.value[i] = TextOf(KnownIds[k])
                          /\ ret.value[j] = TextOf(KnownIds[l])

C5_Witness ==
    /\ call.fn = "generate_recommendations"
    /\ call.issues = <<PyDict(<<"id">>, [id |-> PyStr("deep_server_disclosure")]),
                       PyDict(<<"id">>, [id |-> PyStr("x")]),
                       PyDict(<<"id">>, [id |-> PyStr("deep_sql_injection")])>>
    /\ ret.ok
    /\ ret.value = <<TextOf("deep_sql_injection"), TextOf("deep_server_disclosure")>>

\* the attributes of a Set-Cookie value: its ";"-separated parts, trimmed
\* and lower-cased
CookieAttributes(s) ==
    LET seps == {i \in 0 .. Len(s) - 1 : At(s, i) = ";"}
        stops == seps \cup {Len(s)}
        starts == {0} \cup {i + 1 : i \in seps}
        StopOf(a) == CHOOSE b \in stops : b >= a /\ \A c \in stops : c >= a => b <= c
    IN  {lower(strip(Slice(s, a, StopOf(a)))) : a \in starts}

CookieFindings == SelectSeq(ret.value, LAMBDA f : f.d["id"] = PyStr("deep_insecure_cookie"))

\* C7 as stated: analyze_headers emits a deep_insecure_cookie finding
\* (severity high, context the raw value, no position) exactly when a
\* set-cookie header is present and its value lacks the secure attribute or
\* the httponly attribute, compared case-insensitively.
C7_InsecureCookie ==
    call.fn = "analyze_headers" =>
        /\ ret.ok
        /\ Len(CookieFindings) <= 1
        /\ Len(CookieFindings) = 1
             <=> /\ Has(call.headers, "set-cookie")
                 /\ ~ ({"secure", "httponly"}
                         \subseteq CookieAttributes(call.headers.d["set-cookie"].s))
        /\ \A i \in DOMAIN CookieFindings :
              /\ CookieFindings[i].d["severity"] = PyStr("high")
              /\ CookieFindings[i].d["context"] = call.headers.d["set-cookie"]
              /\ ~Has(CookieFindings[i], "position")

(***************************************************************************)
(* bridge.py: the threaded HTTP service.  Each request is handled by its   *)
(* own thread and its own BridgeRequestHandler, whose __init__ creates an  *)
(* analyzer of its own.  do_POST is interleaved with the other threads; the *)
(* model lets them in at each iteration of the analysis loop.              *)
(***************************************************************************)
\* the characters repr writes as \xNN: chr(1) .. chr(31) but \t, \n and \r,
\* and chr(127), written as they are
ControlChars == "\f"

\* the two hexadecimal digits of each of them
ControlCodes ==
    <<"01", "02", "03", "04", "05", "06", "07", "08", "0b", "0c", "0e", "0f", "10", "11", "12", "13", "14", "15", "16", "17", "18", "19", "1a", "1b", "1c", "1d", "1e", "1f", "7f">>

\* one character of repr(s) inside the quote chosen
ReprChar(c, quote) ==
    IF c = "\\" THEN "\\\\"
    ELSE IF c = quote THEN "\\" \o c
    ELSE IF c = "\t" THEN "\\t"
    ELSE IF c = "\n" THEN "\\n"
    ELSE IF c = "\r" THEN "\\r"
    ELSE IF InStr(c, ControlChars)
    THEN "\\x" \o ControlCodes[CHOOSE i \in DOMAIN ControlCodes : At(ControlChars, i - 1) = c]
    ELSE c

RECURSIVE ReprRange(_, _, _, _)
ReprRange(s, i, j, quote) ==
    IF j <= i THEN ""
    ELSE IF j = i + 1 THEN ReprChar(At(s, i), quote)
    ELSE LET m == (i + j) \div 2
         IN  ReprRange(s, i, m, quote) \o ReprRange(s, m, j, quote)

\* the quote of repr(s): double when s holds a single quote and no double one
ReprQuote(s) == IF Contains(s, "'") /\ ~Contains(s, "\"") THEN "\"" ELSE "'"

\* repr(s), the %r of a string
PyRepr(s) == ReprQuote(s) \o ReprRange(s, 0, Len(s), ReprQuote(s)) \o ReprQuote(s)

RECURSIVE EscapeRange(_, _, _)
EscapeRange(s, i, j) ==
    IF j <= i THEN ""
    ELSE IF j = i + 1
    THEN (CASE At(s, i) = "&" -> "&amp;"
            [] At(s, i) = "<" -> "&lt;"
            [] At(s, i) = ">" -> "&gt;"
            [] OTHER -> At(s, i))
    ELSE LET m == (i + j) \div 2
         IN  EscapeRange(s, i, m) \o EscapeRange(s, m, j)

\* html.escape(s, quote=False)
HtmlEscape(s) == EscapeRange(s, 0, Len(s))

\* the characters int() skips around the literal of a str of chr(1) ..
\* chr(127): space, \t, \n, \r, \f and chr(11), not chr(28) .. chr(31)
IntSpace == " \t\n\r\f" \o VerticalTab

\* sys.get_int_max_str_digits(): the digits int() converts at most
MaxStrDigits == 4300

RECURSIVE FirstOutside(_, _, _, _)
\* the first index of lo .. hi - 1 whose character is not among chars, or hi
FirstOutside(s, chars, lo, hi) ==
    IF hi <= lo THEN hi
    ELSE IF hi = lo + 1 THEN (IF InStr(At(s, lo), chars) THEN hi ELSE lo)
    ELSE LET m == (lo + hi) \div 2
             l == FirstOutside(s, chars, lo, m)
         IN  IF l < m THEN l ELSE FirstOutside(s, chars, m, hi)

RECURSIVE DigitsOf(_, _, _)
\* the digits of s between lo and hi, the underscores left out
DigitsOf(s, lo, hi) ==
    IF hi <= lo THEN ""
    ELSE IF hi = lo + 1 THEN (IF At(s, lo) = "_" THEN "" ELSE At(s, lo))
    ELSE LET m == (lo + hi) \div 2
         IN  DigitsOf(s, lo, m) \o DigitsOf(s, m, hi)

\* the digits of a number without its leading zeros
Magnitude(digits) ==
    LET z == FirstOutside(digits, "0", 0, Len(digits))
    IN  IF z = Len(digits) THEN "0" ELSE Slice(digits, z, Len(digits))

\* a Python int, which has no largest value: its sign and its decimal digits
Long(neg, digits) == [neg |-> neg, digits |-> digits]

RECURSIVE Decimal(_)
\* str(n), for n >= 0: the Content-Length a client computes
Decimal(n) ==
    IF n < 10 THEN At(Digits, n)
    ELSE Decimal(n \div 10) \o At(Digits, n % 10)

\* the Python int of an integer of the model
LongOf(n) == IF n < 0 THEN Long(TRUE, Decimal(0 - n)) ELSE Long(FALSE, Decimal(n))

DigitValue(c) == CHOOSE d \in 0 .. 9 : At(Digits, d) = c

\* a < b, for the digits of two numbers without leading zeros
MagnitudeLess(a, b) ==
    \/ Len(a) < Len(b)
    \/ /\ Len(a) = Len(b)
       /\ \E i \in 0 .. Len(a) - 1 :
             /\ Slice(a, 0, i) = Slice(b, 0, i)
             /\ DigitValue(At(a, i)) < DigitValue(At(b, i))

\* x < y
LongLess(x, y) ==
    IF x.neg # y.neg THEN x.neg
    ELSE IF x.neg THEN MagnitudeLess(y.digits, x.digits)
    ELSE MagnitudeLess(x.digits, y.digits)

\* a Python int of at most nine digits is an integer of the model
IsSmall(x) == Len(x.digits) <= 9

RECURSIVE DigitsValue(_, _)
\* the number the digits of s make after acc
DigitsValue(s, acc) ==
    IF s = "" THEN acc
    ELSE DigitsValue(Slice(s, 1, Len(s)), 10 * acc + DigitValue(At(s, 0)))

Small(x) == IF x.neg THEN 0 - DigitsValue(x.digits, 0) ELSE DigitsValue(x.digits, 0)

\* the %.200R of the message of int(): the characters of the repr it shows
ReprWidth == 200

\* int(v) for a header value, None when the header is absent: white space,
\* a sign, a run of digits with single underscores between them, white
\* space.  The digits of the run are counted against the limit before what
\* follows the run is looked at.
PyIntOf(v) ==
    IF v.t = "NoneType"
    THEN Raise("int() argument must be a string, a bytes-like object or a real number, not 'NoneType'")
    ELSE LET s == v.s
             start == FirstOutside(s, IntSpace, 0, Len(s))
             signed == start < Len(s) /\ At(s, start) \in {"+", "-"}
             from == IF signed THEN start + 1 ELSE start
             to == FirstOutside(s, Digits \o "_", from, Len(s))
             run == Slice(s, from, to)
             digits == DigitsOf(s, from, to)
             invalid == Raise("invalid literal for int() with base 10: "
                              \o Slice(PyRepr(s), 0, Min(Len(PyRepr(s)), ReprWidth)))
         IN  IF \/ run = ""
                \/ At(run, 0) = "_"
                \/ At(run, Len(run) - 1) = "_"
                \/ Contains(run, "__")
             THEN invalid
             ELSE IF Len(digits) > MaxStrDigits
             THEN Raise("Exceeds the limit (" \o Decimal(MaxStrDigits)
                        \o " digits) for integer string conversion: value has "
                        \o Decimal(Len(digits))
                        \o " digits; use sys.set_int_max_str_digits() to increase the limit")
             ELSE IF FirstOutside(s, IntSpace, to, Len(s)) < Len(s)
             THEN invalid
             ELSE Ok(Long(signed /\ At(s, start) = "-" /\ Magnitude(digits) # "0",
                          Magnitude(digits)))

\* the least length for which the bytes object of self.rfile.read(n) cannot
\* be made on a 64-bit build: sys.maxsize less the 32 bytes of its header
BytesLimit == Long(FALSE, "9223372036854775775")

\* self.rfile.read(n) raises whatever the machine: ValueError below -1
\* (OverflowError when n does not fit an index), OverflowError from
\* BytesLimit up
ReadRaises(n) == LongLess(n, LongOf(-1)) \/ ~LongLess(n, BytesLimit)

\* the largest length whose buffer the model takes every machine to give
AllocSure == Long(FALSE, "2147483647")

\* self.rfile.read(n) allocates the n bytes before it waits for them: for a
\* longer buffer the machine's memory decides between MemoryError and waiting
ReadMayFail(n) == ~ReadRaises(n) /\ LongLess(AllocSure, n)

\* a request as the server has parsed it: its method, its path, its
\* Content-Length header (None when absent) and the body the client sends.
\* The request line and the headers are well-formed.
Request(method, path, length, body) ==
    [method |-> method, path |-> path, content_length |-> length, body |-> body]

ScriptPage ==
    PyDict(<<"url", "content", "headers">>,
           [url |-> PyStr("b"), content |-> PyStr("<script>alert(1)</script>"),
            headers |-> PyDict(<<"set-cookie">>, ("set-cookie" :> PyStr("session=abc")))])

BodySamples ==
    {Json(PyList(<<ScriptPage, GoodRecord>>)),
     Json(ScenarioBatch),
     Json(PyList(<<GoodRecord, PyInt(5)>>)),
     Json(EmptyDict),
     NotJson}

\* the bytes of each body, as a client that writes compact JSON sends it
BodyText(doc) ==
    CASE doc = Json(PyList(<<ScriptPage, GoodRecord>>)) ->
            "[{\"url\":\"b\",\"content\":\"<script>alert(1)</script>\","
            \o "\"headers\":{\"set-cookie\":\"session=abc\"}},"
            \o "{\"url\":\"a\",\"issues\":[{\"id\":\"x\",\"severity\":\"critical\"}]}]"
      [] doc = Json(ScenarioBatch) ->
            "[{\"url\":\"a\",\"issues\":[{\"id\":\"x\",\"severity\":\"critical\"}]}]"
      [] doc = Json(PyList(<<GoodRecord, PyInt(5)>>)) ->
            "[{\"url\":\"a\",\"issues\":[{\"id\":\"x\",\"severity\":\"critical\"}]},5]"
      [] doc = Json(EmptyDict) -> "{}"
      [] doc = NotJson -> NotJson.text

Size(doc) == Len(BodyText(doc))

\* a Content-Length header that is the size of the body
Exact(doc) == PyStr(Decimal(Size(doc)))

\* the requests the workers are given.  A Content-Length is absent, not a
\* number, below -1, zero, the size of the body, beyond it, longer than the
\* memory of some machines, or longer than any bytes object; one that cuts
\* the body in its middle is not among them.
Requests ==
    {Request("GET", "/", None, NotJson), Request("GET", "/other", None, NotJson),
     Request("OPTIONS", "/other", None, NotJson),
     Request("POST", "/other", Exact(Json(ScenarioBatch)), Json(ScenarioBatch)),
     Request("POST", "/other", Exact(NotJson), NotJson),
     Request("POST", "/other", None, Json(ScenarioBatch)),
     Request("POST", "/other", PyStr("abc"), Json(ScenarioBatch)),
     Request("POST", "/analyze", PyStr("-5"), Json(ScenarioBatch)),
     Request("POST", "/analyze", PyStr("0"), Json(ScenarioBatch)),
     Request("POST", "/analyze", PyStr(Decimal(Size(Json(EmptyDict)) + 1)), Json(EmptyDict)),
     Request("POST", "/analyze", PyStr("99999999999"), Json(EmptyDict)),
     Request("POST", "/analyze", PyStr("9223372036854775808"), Json(EmptyDict)),
     Request("PUT", "/other", Exact(Json(ScenarioBatch)), Json(ScenarioBatch)),
     Request("A'B", "/analyze", None, NotJson),
     Request("HEAD", "/analyze", None, NotJson)}
    \cup {Request("POST", "/analyze", Exact(body), body) : body \in BodySamples}

\* the reason phrase send_response puts on the status line
Reason(status) ==
    CASE status = 200 -> "OK"
      [] status = 404 -> "Not Found"
      [] status = 500 -> "Internal Server Error"

\* _set_headers followed by a body: status 200 with the CORS headers
Success(body) == [status |-> 200, reason |-> Reason(200), cors |-> TRUE, body |-> body]

\* send_response(status); end_headers(); then the error object
Failure(status, msg) ==
    [status |-> status, reason |-> Reason(status), cors |-> FALSE, body |-> ErrorResult(msg)]

\* the handler raised outside its try block: the connection is closed unanswered
NoResponse == [status |-> 0, reason |-> "", cors |-> FALSE, body |-> Nothing]

\* the methods BridgeRequestHandler defines a do_ method for
Supported == {"GET", "OPTIONS", "POST"}

\* the page send_error writes: "Error code: 501", "Message: ...", the
\* message escaped for HTML
ErrorPage(code, message) == [t |-> "html", code |-> code, message |-> HtmlEscape(message)]

\* the answer of the inherited BaseHTTPRequestHandler to a method without a
\* do_ method: send_error(501, "Unsupported method (%r)" % method), the
\* message on the status line and in the page, the page left out for HEAD
Unsupported(method) ==
    [status |-> 501, reason |-> "Unsupported method (" \o PyRepr(method) \o ")",
     cors |-> FALSE,
     body |-> IF method = "HEAD" THEN Nothing
              ELSE ErrorPage(501, "Unsupported method (" \o PyRepr(method) \o ")")]

RunningMessage ==
    PyDict(<<"status", "message">>,
           [status |-> PyStr("running"),
            message |-> PyStr("Python Deep Analyzer Bridge is running. Send POST requests to /analyze")])

\* the finding list and url set kept in one place for all the threads
FrameOfShared(w) == 1

\* the locals of the analysis a worker runs: each call has its own
FrameOf(w) == w

\* self.rfile.read(n) once n bytes of the body are there: the body, or
\* nothing of it
Received(doc, n) ==
    CASE n = Size(doc) -> doc
      [] n = 0 /\ Size(doc) # 0 -> [json |-> FALSE, text |-> ""]

\* do_POST from the data it has read to the call of analyze_scan_results:
\* what it answers at once, or the records its analysis is to loop over
PostOutcome(path, data) ==
    IF ~json_loads(data).ok
    THEN [answer |-> TRUE, response |-> Failure(500, json_loads(data).error)]
    ELSE IF path # "/analyze"
    THEN [answer |-> TRUE, response |-> Failure(404, "Unknown endpoint")]
    ELSE IF ~Iterate(data.value).ok
    THEN [answer |-> TRUE, response |-> Failure(500, Iterate(data.value).error)]
    ELSE [answer |-> FALSE, records |-> Iterate(data.value).value]

\* what the client has after the status line and the headers were sent
\* (send_response .. end_headers) and before the body is written
HeadOf(answer) == [answer EXCEPT !.body = Nothing]

\* the handler sends the head of its answer and keeps the body to write
SendHead(w, answer) ==
    /\ response' = [response EXCEPT ![w] = HeadOf(answer)]
    /\ pending' = [pending EXCEPT ![w] = answer.body]
    /\ wpc' = [wpc EXCEPT ![w] = "body"]

\* _set_headers and nothing more
do_OPTIONS(w, req) ==
    /\ wpc[w] = "idle"
    /\ req.method = "OPTIONS"
    /\ request' = [request EXCEPT ![w] = req]
    /\ response' = [response EXCEPT ![w] = Success(Nothing)]
    /\ wpc' = [wpc EXCEPT ![w] = "done"]
    /\ UNCHANGED <<pc, stdin, stdout, exit_code, call, ret, frame, pending>>

\* _set_headers, then the status message is left to write
do_GET(w, req) ==
    /\ wpc[w] = "idle"
    /\ req.method = "GET"
    /\ request' = [request EXCEPT ![w] = req]
    /\ SendHead(w, Success(RunningMessage))
    /\ UNCHANGED <<pc, stdin, stdout, exit_code, call, ret, frame>>

\* do_POST up to its wait for the body.  int(self.headers['Content-Length'])
\* raises when the header is absent, not a number or a number of too many
\* digits, and self.rfile.read when the number is below -1 or too large for
\* a bytes object, or when the machine has no memory for the buffer; both
\* are outside the try block, so the connection is closed unanswered.  Else
\* self.rfile.read blocks on the socket.
do_POST(w, req) ==
    /\ wpc[w] = "idle"
    /\ req.method = "POST"
    /\ request' = [request EXCEPT ![w] = req]
    /\ \E content_length \in {PyIntOf(req.content_length)} :
          \/ /\ IF content_length.ok THEN ~ReadRaises(content_length.value) ELSE FALSE
             /\ wpc' = [wpc EXCEPT ![w] = "read"]
             /\ response' = response
          \/ /\ IF content_length.ok
                THEN ReadRaises(content_length.value) \/ ReadMayFail(content_length.value)
                ELSE TRUE
             /\ wpc' = [wpc EXCEPT ![w] = "done"]
             /\ response' = [response EXCEPT ![w] = NoResponse]
    /\ UNCHANGED <<pc, stdin, stdout, exit_code, call, ret, frame, pending>>

\* the bytes asked for have arrived: do_POST goes on to its first send or to
\* the loop of analyze_scan_results.  When more is asked for than the client
\* sends (-1 asks for all up to the end of the stream), the read goes on
\* waiting.
ReadBody(w) ==
    /\ wpc[w] = "read"
    /\ IsSmall(PyIntOf(request[w].content_length).value)
    /\ Small(PyIntOf(request[w].content_length).value) \in 0 .. Size(request[w].body)
    /\ \E out \in {PostOutcome(request[w].path,
                               Received(request[w].body,
                                        Small(PyIntOf(request[w].content_length).value)))} :
          IF out.answer
          THEN /\ SendHead(w, out.response)
               /\ frame' = frame
          ELSE /\ frame' = [frame EXCEPT ![FrameOf(w)] =
                               [locals |-> NewFrame, rest |-> out.records]]
               /\ wpc' = [wpc EXCEPT ![w] = "loop"]
               /\ UNCHANGED <<response, pending>>
    /\ UNCHANGED <<pc, stdin, stdout, exit_code, call, ret, request>>

\* a method the handler has no do_ method for: the inherited
\* handle_one_request answers 501, the head first and then the page
send_error(w, req) ==
    /\ wpc[w] = "idle"
    /\ req.method \notin Supported
    /\ request' = [request EXCEPT ![w] = req]
    /\ IF Unsupported(req.method).body = Nothing
       THEN /\ response' = [response EXCEPT ![w] = Unsupported(req.method)]
            /\ wpc' = [wpc EXCEPT ![w] = "done"]
            /\ pending' = pending
       ELSE SendHead(w, Unsupported(req.method))
    /\ UNCHANGED <<pc, stdin, stdout, exit_code, call, ret, frame>>

\* one iteration of the loop of analyze_scan_results in the worker's thread;
\* an exception goes to the handler of do_POST, which sends the head of 500
AnalyzeStep(w) ==
    /\ wpc[w] = "loop"
    /\ frame[FrameOf(w)] # Nothing
    /\ frame[FrameOf(w)].rest # <<>>
    /\ \E next \in {ProcessRecord(frame[FrameOf(w)].locals, Head(frame[FrameOf(w)].rest))} :
          IF next.ok
          THEN /\ frame' = [frame EXCEPT ![FrameOf(w)] =
                               [locals |-> next.value, rest |-> Tail(frame[FrameOf(w)].rest)]]
               /\ UNCHANGED <<wpc, response, pending>>
          ELSE /\ frame' = [frame EXCEPT ![FrameOf(w)] = Nothing]
               /\ SendHead(w, Failure(500, next.error))
    /\ UNCHANGED <<pc, stdin, stdout, exit_code, call, ret, request>>

\* the rest of analyze_scan_results, its return to do_POST, and the head of
\* the answer: _set_headers for a report, 500 for an exception
AnalyzeReturn(w) ==
    /\ wpc[w] = "loop"
    /\ frame[FrameOf(w)] # Nothing
    /\ frame[FrameOf(w)].rest = <<>>
    /\ \E results \in {Summarize(frame[FrameOf(w)].locals)} :
          SendHead(w, IF results.ok THEN Success(results.value)
                      ELSE Failure(500, results.error))
    /\ frame' = [frame EXCEPT ![FrameOf(w)] = Nothing]
    /\ UNCHANGED <<pc, stdin, stdout, exit_code, call, ret, request>>

\* self.wfile.write(json.dumps(...).encode()): the body follows the head in
\* a send of its own, and other threads may run between the two
WriteBody(w) ==
    /\ wpc[w] = "body"
    /\ response' = [response EXCEPT ![w].body = pending[w]]
    /\ pending' = [pending EXCEPT ![w] = Nothing]
    /\ wpc' = [wpc EXCEPT ![w] = "done"]
    /\ UNCHANGED <<pc, stdin, stdout, exit_code, call, ret, request, frame>>

\* the connection is closed; the thread and its handler are gone
Close(w) ==
    /\ wpc[w] = "done"
    /\ wpc' = [wpc EXCEPT ![w] = "idle"]
    /\ request' = [request EXCEPT ![w] = Nothing]
    /\ response' = [response EXCEPT ![w] = Nothing]
    /\ UNCHANGED <<pc, stdin, stdout, exit_code, call, ret, frame, pending>>

NextBridge ==
    \E w \in Workers :
        \/ \E req \in Requests : do_OPTIONS(w, req)
        \/ \E req \in Requests : do_GET(w, req)
        \/ \E req \in Requests : do_POST(w, req)
        \/ \E req \in Requests : send_error(w, req)
        \/ ReadBody(w)
        \/ AnalyzeStep(w)
        \/ AnalyzeReturn(w)
        \/ WriteBody(w)
        \/ Close(w)

SpecBridge == Init /\ [][NextBridge]_vars

(***************************************************************************)
(* Claims about the service surface                                        *)
(***************************************************************************)
Answered(w) == wpc[w] = "done"

Paths == {req.path : req \in Requests}

IsReport(v) == v.t = "dict" /\ "risk_score" \in DOMAIN v.d

\* C9 as stated: every request to a route other than the health route and
\* the analysis route is answered 404 with a JSON error object, whatever its
\* method and body; only the health route answers "running", and only the
\* analysis route answers with a Report or a server-error object.  The
\* health route may be any one path.
C9_UnknownRoutes ==
    \E health \in Paths \ {"/analyze"} :
        \A w \in Workers :
            Answered(w) =>
                /\ request[w].path \notin {health, "/analyze"} =>
                      response[w].status = 404 /\ IsErrorResult(response[w].body)
                /\ response[w].body = RunningMessage => request[w].path = health
                /\ IsReport(response[w].body) \/ response[w].status = 500 =>
                      request[w].path = "/analyze"

\* what the service answers to a submission analysed with no other around
Respond(results) ==
    IF results.ok THEN Success(results.value) ELSE Failure(500, results.error)

\* a POST to /analyze of a JSON body with the Content-Length of that body
IsSubmission(req) ==
    /\ req.method = "POST"
    /\ req.path = "/analyze"
    /\ req.content_length = Exact(req.body)
    /\ req.body.json

\* C10: under every interleaving of the threads, the answer to each analysis
\* submission is the one that analysing its batch alone produces, so the same
\* batch gets the same report before, during and after any other analysis.
C10_Isolation ==
    \A w \in Workers :
        Answered(w) /\ IsSubmission(request[w]) =>
            response[w] = Respond(analyze_scan_results(request[w].body.value))

\* a two-record submission has been answered with its report while another
\* thread is in the middle of the loop of its own two-record submission
C10_Witness ==
    \E w1, w2 \in Workers :
        /\ w1 # w2
        /\ Answered(w1)
        /\ request[w1].body = Json(PyList(<<ScriptPage, GoodRecord>>))
        /\ response[w1].status = 200
        /\ IsReport(response[w1].body)
        /\ wpc[w2] = "loop"
        /\ request[w2].body = Json(PyList(<<GoodRecord, PyInt(5)>>))
        /\ frame[w2] # Nothing
        /\ frame[w2].locals.all_issues # <<>>
        /\ frame[w2].rest # <<>>

====
